---- MODULE Spec2Model ----
(***************************************************************************)
(* Task management system ("class 7/main.py"): the Task hierarchy, the     *)
(* TaskManager (collection, history log, JSON persistence) and TaskFilter. *)
(*                                                                         *)
(* Representation.                                                         *)
(*   - A datetime is a day number (a Nat); None is the value None below.   *)
(*     A datetime object is always truthy, None is falsy.                  *)
(*   - A Priority member is its enum value 1..4, a TaskStatus member its   *)
(*     enum value ("Not Started", ...); .name and Enum[name] are the       *)
(*     conversions PriorityName/PriorityByName, StatusName/StatusByName.   *)
(*   - An object is a record holding its class (cls) and its instance      *)
(*     attributes; hasattr(obj, k) is "k is an attribute of the record".   *)
(*   - heap maps object references to objects; the manager's dict maps     *)
(*     keys to references, in insertion order.                             *)
(*   - uuid4() is a counter: every call returns a value never seen before. *)
(*   - datetime.now() never goes backwards: each read returns the last     *)
(*     value read or a later one.  The values read are inputs of a call.   *)
(***************************************************************************)
EXTENDS Integers, Sequences, FiniteSets, TLC

VARIABLES
    heap,           \* reference -> Task object (every object the caller or the manager holds)
    tasks,          \* TaskManager.tasks: sequence of [key, ref], keys distinct, insertion order
    task_history,   \* TaskManager.task_history: sequence of history records
    file,           \* contents of the JSON file: NoFile, or [tasks, history]
    now,            \* the last value datetime.now() returned
    uuid_next,      \* the next value uuid4() returns
    ret,            \* the last call: its name (op), the reference or identifier it names (arg),
                    \* its status and kwargs arguments, its boolean result (val; TRUE when it has none)
    filter_in,      \* the tag list handed to the last TaskFilter call
    filter_out,     \* the list of tasks (references) the last TaskFilter call returned
    was_completed   \* history variable: references whose status has changed into COMPLETED

vars == <<heap, tasks, task_history, file, now, uuid_next, ret, filter_in, filter_out, was_completed>>

-----------------------------------------------------------------------------
(* Bounds of the model. *)

\* a manager's run constructs at most MaxIds tasks
MaxIds == 2
\* the clock of a manager's run reads 0..MaxNow
MaxNow == 0
\* the clock of a single task's run reads 0..MaxTaskNow
MaxTaskNow == 1
\* the history log holds at most MaxHist records
MaxHist == 3
\* complete_occurrence is called on a task at most MaxRecur times
MaxRecur == 1
\* the TaskFilter harness builds at most MaxFilterTasks tasks
MaxFilterTasks == 3
\* the clock of a run of update_task patches reads 0..MaxPatchNow
MaxPatchNow == 1

-----------------------------------------------------------------------------
(* Values. *)

None == -1

NoFile == [tasks |-> <<>>, history |-> <<>>, exists |-> FALSE]

Truthy(d) == d # None

LOW == 1
MEDIUM == 2
HIGH == 3
URGENT == 4

Priority == {LOW, MEDIUM, HIGH, URGENT}

PriorityName(p) ==
    CASE p = LOW -> "LOW"
      [] p = MEDIUM -> "MEDIUM"
      [] p = HIGH -> "HIGH"
      [] p = URGENT -> "URGENT"

PriorityByName(n) == CHOOSE p \in Priority : PriorityName(p) = n

NOT_STARTED == "Not Started"
IN_PROGRESS == "In Progress"
BLOCKED == "Blocked"
COMPLETED == "Completed"
CANCELLED == "Cancelled"

TaskStatus == {NOT_STARTED, IN_PROGRESS, BLOCKED, COMPLETED, CANCELLED}

StatusName(s) ==
    CASE s = NOT_STARTED -> "NOT_STARTED"
      [] s = IN_PROGRESS -> "IN_PROGRESS"
      [] s = BLOCKED -> "BLOCKED"
      [] s = COMPLETED -> "COMPLETED"
      [] s = CANCELLED -> "CANCELLED"

StatusByName(n) == CHOOSE s \in TaskStatus : StatusName(s) = n

\* str.lower() on the tag strings the model uses
Lower(s) ==
    CASE s = "URGENT" -> "urgent"
      [] s = "Urgent" -> "urgent"
      [] s = "WORK" -> "work"
      [] s = "Work" -> "work"
      [] OTHER -> s

\* timedelta(days=n) added to a datetime
PlusDays(d, n) == d + n

-----------------------------------------------------------------------------
(* datetime.isoformat / datetime.fromisoformat: a day number is written as  *)
(* its decimal digits and read back from them.                              *)

DigitChar(n) == <<"0", "1", "2", "3", "4", "5", "6", "7", "8", "9">>[n + 1]

DigitValue(c) == CHOOSE n \in 0..9 : DigitChar(n) = c

RECURSIVE isoformat(_)
isoformat(d) ==
    IF d < 10 THEN <<DigitChar(d)>>
    ELSE Append(isoformat(d \div 10), DigitChar(d % 10))

RECURSIVE fromisoformat(_)
fromisoformat(s) ==
    IF Len(s) = 1 THEN DigitValue(s[1])
    ELSE fromisoformat(SubSeq(s, 1, Len(s) - 1)) * 10 + DigitValue(s[Len(s)])

\* JSON null; like the empty string it is falsy in "if task_data.get(field)"
Null == <<>>

\* list(a_set): the elements in some order
RECURSIVE SetToList(_)
SetToList(S) ==
    IF S = {} THEN <<>>
    ELSE LET x == CHOOSE x \in S : TRUE IN <<x>> \o SetToList(S \ {x})

\* set(a_list)
ListToSet(l) == {l[i] : i \in DOMAIN l}

-----------------------------------------------------------------------------
(* class Task and its subclasses: each method is an operator from the       *)
(* object (and the clock values it reads) to the object after the call.     *)

\* Task.__init__
TaskInit(cls, id, title, description, priority, due_date, t) ==
    [cls |-> cls,
     id |-> id,
     title |-> title,
     description |-> description,
     priority |-> priority,
     status |-> NOT_STARTED,
     created_at |-> t,
     updated_at |-> t,
     due_date |-> due_date,
     completion_date |-> None,
     tags |-> {}]

SimpleTask(id, title, description, priority, due_date, t) ==
    TaskInit("SimpleTask", id, title, description, priority, due_date, t)

ProjectTask(id, title, project, description, priority, due_date, t) ==
    TaskInit("ProjectTask", id, title, description, priority, due_date, t)
        @@ [project |-> project, dependencies |-> {}, estimated_hours |-> 1]

RecurringTask(id, title, frequency, description, priority, due_date, t) ==
    TaskInit("RecurringTask", id, title, description, priority, due_date, t)
        @@ [frequency |-> frequency, recurrence_count |-> 0, last_completed |-> None]

\* the methods an instance of the class has
Methods(cls) ==
    {"update_status", "add_tag", "remove_tag", "is_overdue", "estimate_effort", "to_dict", "__str__"}
        \cup (IF cls = "ProjectTask"
              THEN {"add_dependency", "remove_dependency", "set_estimate"} ELSE {})
        \cup (IF cls = "RecurringTask" THEN {"complete_occurrence"} ELSE {})

\* hasattr(task, key): key names an instance attribute or a method of the class
HasAttr(task, key) == key \in (DOMAIN task \ {"cls"}) \cup Methods(task.cls)

\* a str that is the value of a TaskStatus member, and one that is not; neither
\* is a member of TaskStatus
StrCompleted == "str 'Completed'"
StrBogus == "str 'bogus'"

IsMemberValue(v) == v = StrCompleted

\* the interpreters: "x in AnEnumClass", for an x that is no Enum member, is
\* False before 3.8, raises TypeError from 3.8 to 3.11, and from 3.12 is True
\* when x is the value of a member and False when not
Builds == {"3.7", "3.11", "3.12"}

\* "status in TaskStatus": "True", "False" or the exception raised
InTaskStatus(status, build) ==
    IF status \in TaskStatus THEN "True"
    ELSE CASE build = "3.7" -> "False"
           [] build = "3.11" -> "TypeError"
           [] build = "3.12" -> IF IsMemberValue(status) THEN "True" ELSE "False"

\* update_status that forgets the completion date
update_status_unstamped(task, status, t) ==
    [task EXCEPT !.status = status, !.updated_at = t]

\* Task.update_status, past its first test
update_status(task, status, t) ==
    [task EXCEPT !.status = status,
                 !.updated_at = t,
                 !.completion_date = IF status = COMPLETED THEN t ELSE @]

\* add_tag that leaves updated_at alone
add_tag_unstamped(task, tag, t) ==
    [task EXCEPT !.tags = @ \cup {Lower(tag)}]

\* Task.add_tag
add_tag(task, tag, t) ==
    [task EXCEPT !.tags = @ \cup {Lower(tag)}, !.updated_at = t]

\* Task.remove_tag
remove_tag(task, tag, t) ==
    IF Lower(tag) \in task.tags
    THEN [task EXCEPT !.tags = @ \ {Lower(tag)}, !.updated_at = t]
    ELSE task

\* is_overdue with >= for >
is_overdue_inclusive(task, t) ==
    IF Truthy(task.due_date) /\ task.status # COMPLETED
    THEN t >= task.due_date
    ELSE FALSE

\* Task.is_overdue reads the clock only behind the first test
OverdueReadsClock(task) == Truthy(task.due_date) /\ task.status # COMPLETED

is_overdue(task, t) ==
    IF Truthy(task.due_date) /\ task.status # COMPLETED
    THEN t > task.due_date
    ELSE FALSE

\* ProjectTask.add_dependency / remove_dependency / set_estimate
add_dependency(task, other, t) ==
    [task EXCEPT !.dependencies = @ \cup {other.id}, !.updated_at = t]

remove_dependency(task, other, t) ==
    IF other.id \in task.dependencies
    THEN [task EXCEPT !.dependencies = @ \ {other.id}, !.updated_at = t]
    ELSE task

set_estimate(task, hours, t) ==
    [task EXCEPT !.estimated_hours = hours, !.updated_at = t]

\* NextDue with a month of four weeks
NextDueFourWeeks(due_date, frequency) ==
    IF Truthy(due_date)
    THEN CASE frequency = "daily" -> PlusDays(due_date, 1)
           [] frequency = "weekly" -> PlusDays(due_date, 7)
           [] frequency = "monthly" -> PlusDays(due_date, 28)
           [] frequency = "yearly" -> PlusDays(due_date, 365)
           [] OTHER -> due_date
    ELSE due_date

\* the due date of the next occurrence
NextDue(due_date, frequency) ==
    IF Truthy(due_date)
    THEN CASE frequency = "daily" -> PlusDays(due_date, 1)
           [] frequency = "weekly" -> PlusDays(due_date, 7)
           [] frequency = "monthly" -> PlusDays(due_date, 30)
           [] frequency = "yearly" -> PlusDays(due_date, 365)
           [] OTHER -> due_date
    ELSE due_date

\* complete_occurrence that leaves the occurrence completed
complete_occurrence_completed(task, t1, t2) ==
    [task EXCEPT !.last_completed = t1,
                 !.recurrence_count = @ + 1,
                 !.status = COMPLETED,
                 !.due_date = NextDue(@, task.frequency),
                 !.updated_at = t2]

\* RecurringTask.complete_occurrence: t1 and t2 are its two clock reads
complete_occurrence(task, t1, t2) ==
    [task EXCEPT !.last_completed = t1,
                 !.recurrence_count = @ + 1,
                 !.status = NOT_STARTED,
                 !.due_date = NextDue(@, task.frequency),
                 !.updated_at = t2]

OptIso(d) == IF Truthy(d) THEN isoformat(d) ELSE Null

\* Task.to_dict
TaskToDict(task) ==
    [id |-> task.id,
     title |-> task.title,
     description |-> task.description,
     priority |-> PriorityName(task.priority),
     status |-> StatusName(task.status),
     created_at |-> isoformat(task.created_at),
     updated_at |-> isoformat(task.updated_at),
     due_date |-> OptIso(task.due_date),
     completion_date |-> OptIso(task.completion_date),
     tags |-> SetToList(task.tags),
     type |-> task.cls]

\* to_dict of the object's class
to_dict(task) ==
    CASE task.cls = "ProjectTask" ->
            TaskToDict(task) @@ [project |-> task.project,
                                 dependencies |-> SetToList(task.dependencies),
                                 estimated_hours |-> task.estimated_hours]
      [] task.cls = "RecurringTask" ->
            TaskToDict(task) @@ [frequency |-> task.frequency,
                                 recurrence_count |-> task.recurrence_count,
                                 last_completed |-> OptIso(task.last_completed)]
      [] OTHER -> TaskToDict(task)

-----------------------------------------------------------------------------
(* class TaskManager.  self.tasks is a dict: an assignment to a key it      *)
(* holds keeps the key's place, a new key goes last.                        *)

Keys(d) == {d[i].key : i \in DOMAIN d}

DictGet(d, k) == d[CHOOSE i \in DOMAIN d : d[i].key = k].ref

DictSet(d, k, r) ==
    IF k \in Keys(d)
    THEN [i \in DOMAIN d |-> IF d[i].key = k THEN [key |-> k, ref |-> r] ELSE d[i]]
    ELSE Append(d, [key |-> k, ref |-> r])

DictPop(d, k) ==
    LET i == CHOOSE j \in DOMAIN d : d[j].key = k
    IN  SubSeq(d, 1, i - 1) \o SubSeq(d, i + 1, Len(d))

\* _record_history with insert(0, ...) for append
record_history_front(history, action, task, t) ==
    <<[action |-> action,
       task_id |-> task.id,
       task_title |-> task.title,
       timestamp |-> isoformat(t)]>> \o history

\* TaskManager._record_history
record_history(history, action, task, t) ==
    Append(history, [action |-> action,
                     task_id |-> task.id,
                     task_title |-> task.title,
                     timestamp |-> isoformat(t)])

\* the setattr loop of update_task: kwargs is a function from names to values
\* setattr on a name that so far was only a method makes an instance attribute
ApplyPatch(task, kwargs) ==
    LET set == {k \in DOMAIN kwargs : HasAttr(task, k)}
    IN  [k \in DOMAIN task \cup set |-> IF k \in set THEN kwargs[k] ELSE task[k]]

ParseDate(v) == IF v # Null THEN fromisoformat(v) ELSE None

\* load_from_file, one record: the object built from it.  The id and the
\* created_at the constructor draws are overwritten by the stored ones.
LoadTask(d) ==
    LET title == d.title
        description == d.description
        priority == PriorityByName(d.priority)
        due_date == ParseDate(d.due_date)
        built ==
            CASE d.type = "SimpleTask" ->
                    SimpleTask(None, title, description, priority, due_date, None)
              [] d.type = "ProjectTask" ->
                    [ProjectTask(None, title, d.project, description, priority, due_date, None)
                        EXCEPT !.dependencies = ListToSet(d.dependencies),
                               !.estimated_hours = d.estimated_hours]
              [] d.type = "RecurringTask" ->
                    [RecurringTask(None, title, d.frequency, description, priority, due_date, None)
                        EXCEPT !.recurrence_count = d.recurrence_count,
                               !.last_completed = ParseDate(d.last_completed)]
    IN  [built EXCEPT !.id = d.id,
                      !.status = StatusByName(d.status),
                      !.created_at = ParseDate(d.created_at),
                      !.updated_at = ParseDate(d.updated_at),
                      !.completion_date = ParseDate(d.completion_date),
                      !.tags = ListToSet(d.tags)]

KnownType(d) == d.type \in {"SimpleTask", "ProjectTask", "RecurringTask"}

\* the loop of load_from_file over the first n stored records: the dict it
\* builds, as a sequence of [key, task]
RECURSIVE LoadAll(_, _)
LoadAll(records, n) ==
    IF n = 0 THEN <<>>
    ELSE LET sofar == LoadAll(records, n - 1)
             d == records[n]
         IN  IF ~KnownType(d) THEN sofar
             ELSE LET task == LoadTask(d)
                  IN  IF \E i \in DOMAIN sofar : sofar[i].key = task.id
                      THEN [i \in DOMAIN sofar |->
                              IF sofar[i].key = task.id
                              THEN [key |-> task.id, task |-> task] ELSE sofar[i]]
                      ELSE Append(sofar, [key |-> task.id, task |-> task])

-----------------------------------------------------------------------------
(* TaskManager's methods: from the manager's fields (d: self.tasks, h:      *)
(* self.task_history), the heap hp and the clock reads, to what the call    *)
(* returns and leaves behind.                                               *)

\* add_task that records nothing
add_task_silent(d, h, hp, o, t) ==
    [tasks |-> DictSet(d, hp[o].id, o), history |-> h]

\* TaskManager.add_task(task), task being the object at reference o
add_task(d, h, hp, o, t) ==
    [tasks |-> DictSet(d, hp[o].id, o),
     history |-> record_history(h, "add", hp[o], t)]

\* update_task that returns True whether or not it found the task
update_task_always_true(d, h, hp, task_id, kwargs, t1, t2) ==
    IF task_id \notin Keys(d)
    THEN [val |-> TRUE, heap |-> hp, history |-> h]
    ELSE LET o == DictGet(d, task_id)
             task == [ApplyPatch(hp[o], kwargs) EXCEPT !.updated_at = t1]
         IN  [val |-> TRUE,
              heap |-> [hp EXCEPT ![o] = task],
              history |-> record_history(h, "update", task, t2)]

\* TaskManager.update_task(task_id, **kwargs)
update_task(d, h, hp, task_id, kwargs, t1, t2) ==
    IF task_id \notin Keys(d)
    THEN [val |-> FALSE, heap |-> hp, history |-> h]
    ELSE LET o == DictGet(d, task_id)
             task == [ApplyPatch(hp[o], kwargs) EXCEPT !.updated_at = t1]
         IN  [val |-> TRUE,
              heap |-> [hp EXCEPT ![o] = task],
              history |-> record_history(h, "update", task, t2)]

\* TaskManager.delete_task(task_id)
delete_task(d, h, hp, task_id, t) ==
    IF task_id \in Keys(d)
    THEN [val |-> TRUE,
          tasks |-> DictPop(d, task_id),
          history |-> record_history(h, "delete", hp[DictGet(d, task_id)], t)]
    ELSE [val |-> FALSE, tasks |-> d, history |-> h]

\* TaskManager.save_to_file: the data json.dump writes
save_to_file(d, h, hp) ==
    [exists |-> TRUE,
     tasks |-> [i \in DOMAIN d |-> to_dict(hp[d[i].ref])],
     history |-> h]

\* load_from_file that empties the manager when it finds no file
load_from_file_clearing(d, h, hp, f) ==
    IF ~f.exists
    THEN [val |-> FALSE, heap |-> hp, tasks |-> <<>>, history |-> <<>>]
    ELSE LET loaded == LoadAll(f.tasks, Len(f.tasks))
         IN  [val |-> TRUE,
              heap |-> [i \in DOMAIN loaded |-> loaded[i].task],
              tasks |-> [i \in DOMAIN loaded |-> [key |-> loaded[i].key, ref |-> i]],
              history |-> f.history]

\* TaskManager.load_from_file, f being what the path holds.  The objects the
\* manager held are replaced by newly built ones, numbered in the order of
\* the dict; the caller keeps no reference to an object made before the load.
load_from_file(d, h, hp, f) ==
    IF ~f.exists
    THEN [val |-> FALSE, heap |-> hp, tasks |-> d, history |-> h]
    ELSE LET loaded == LoadAll(f.tasks, Len(f.tasks))
         IN  [val |-> TRUE,
              heap |-> [i \in DOMAIN loaded |-> loaded[i].task],
              tasks |-> [i \in DOMAIN loaded |-> [key |-> loaded[i].key, ref |-> i]],
              history |-> f.history]

-----------------------------------------------------------------------------
(* The state machine.  An action is one call; t, t1, t2 are the values its  *)
(* reads of datetime.now() return, in order.                                *)

\* a reference no object has
FreshRef == CHOOSE n \in 1..(Cardinality(DOMAIN heap) + 1) : n \notin DOMAIN heap

\* the history variable after a step that leaves the references in place
Completions(newheap) ==
    (was_completed \cap DOMAIN newheap)
        \cup {o \in DOMAIN newheap \cap DOMAIN heap :
                newheap[o].status = COMPLETED /\ heap[o].status # COMPLETED}

Called(op, arg, val) ==
    [op |-> op, arg |-> arg, status |-> "", kwargs |-> <<>>, val |-> val, error |-> ""]

\* the call reads the clock (and gets t) or does not
Reads(reads, t) == IF reads THEN t >= now ELSE t = now

Init ==
    /\ heap = <<>>
    /\ tasks = <<>>
    /\ task_history = <<>>
    /\ file = NoFile
    /\ now = 0
    /\ uuid_next = 1
    /\ ret = Called("TaskManager", 0, TRUE)
    /\ filter_in = <<>>
    /\ filter_out = <<>>
    /\ was_completed = {}

\* a constructor call: SimpleTask(...), ProjectTask(...) or RecurringTask(...);
\* extra is the project or the frequency
NewTask(cls, title, priority, due_date, extra, t) ==
    /\ t >= now
    /\ LET obj == CASE cls = "ProjectTask" ->
                          ProjectTask(uuid_next, title, extra, "", priority, due_date, t)
                    [] cls = "RecurringTask" ->
                          RecurringTask(uuid_next, title, extra, "", priority, due_date, t)
                    [] OTHER ->
                          SimpleTask(uuid_next, title, "", priority, due_date, t)
       IN  /\ heap' = heap @@ (FreshRef :> obj)
           /\ ret' = Called(cls, FreshRef, TRUE)
    /\ now' = t
    /\ uuid_next' = uuid_next + 1
    /\ UNCHANGED <<tasks, task_history, file, filter_in, filter_out, was_completed>>

\* task.update_status(status) under an interpreter: the call raises what the
\* membership test raises, or ValueError when the test is False
UpdateStatus(o, status, build, t) ==
    /\ o \in DOMAIN heap
    /\ LET test == InTaskStatus(status, build)
       IN  /\ Reads(test = "True", t)
           /\ heap' = IF test = "True"
                      THEN [heap EXCEPT ![o] = update_status(@, status, t)]
                      ELSE heap
           /\ ret' = [Called("update_status", o, TRUE)
                        EXCEPT !.status = status,
                               !.error = CASE test = "True" -> ""
                                           [] test = "False" -> "ValueError"
                                           [] OTHER -> test]
    /\ now' = t
    /\ was_completed' = Completions(heap')
    /\ UNCHANGED <<tasks, task_history, file, uuid_next, filter_in, filter_out>>

\* task.add_tag(tag)
AddTag(o, tag, t) ==
    /\ o \in DOMAIN heap
    /\ t >= now
    /\ heap' = [heap EXCEPT ![o] = add_tag(@, tag, t)]
    /\ now' = t
    /\ ret' = Called("add_tag", o, TRUE)
    /\ UNCHANGED <<tasks, task_history, file, uuid_next, filter_in, filter_out, was_completed>>

\* task.remove_tag(tag): the clock is read only when the tag is there
RemoveTag(o, tag, t) ==
    /\ o \in DOMAIN heap
    /\ Reads(Lower(tag) \in heap[o].tags, t)
    /\ heap' = [heap EXCEPT ![o] = remove_tag(@, tag, t)]
    /\ now' = t
    /\ ret' = Called("remove_tag", o, TRUE)
    /\ UNCHANGED <<tasks, task_history, file, uuid_next, filter_in, filter_out, was_completed>>

\* task.is_overdue()
IsOverdue(o, t) ==
    /\ o \in DOMAIN heap
    /\ Reads(OverdueReadsClock(heap[o]), t)
    /\ ret' = Called("is_overdue", o, is_overdue(heap[o], t))
    /\ now' = t
    /\ UNCHANGED <<heap, tasks, task_history, file, uuid_next, filter_in, filter_out, was_completed>>

\* task.add_dependency(other), on a ProjectTask
AddDependency(o, other, t) ==
    /\ o \in DOMAIN heap /\ other \in DOMAIN heap
    /\ heap[o].cls = "ProjectTask"
    /\ t >= now
    /\ heap' = [heap EXCEPT ![o] = add_dependency(@, heap[other], t)]
    /\ now' = t
    /\ ret' = Called("add_dependency", o, TRUE)
    /\ UNCHANGED <<tasks, task_history, file, uuid_next, filter_in, filter_out, was_completed>>

\* task.remove_dependency(other), on a ProjectTask
RemoveDependency(o, other, t) ==
    /\ o \in DOMAIN heap /\ other \in DOMAIN heap
    /\ heap[o].cls = "ProjectTask"
    /\ Reads(heap[other].id \in heap[o].dependencies, t)
    /\ heap' = [heap EXCEPT ![o] = remove_dependency(@, heap[other], t)]
    /\ now' = t
    /\ ret' = Called("remove_dependency", o, TRUE)
    /\ UNCHANGED <<tasks, task_history, file, uuid_next, filter_in, filter_out, was_completed>>

\* task.set_estimate(hours), on a ProjectTask
SetEstimate(o, hours, t) ==
    /\ o \in DOMAIN heap
    /\ heap[o].cls = "ProjectTask"
    /\ t >= now
    /\ heap' = [heap EXCEPT ![o] = set_estimate(@, hours, t)]
    /\ now' = t
    /\ ret' = Called("set_estimate", o, TRUE)
    /\ UNCHANGED <<tasks, task_history, file, uuid_next, filter_in, filter_out, was_completed>>

\* task.complete_occurrence(), on a RecurringTask
CompleteOccurrence(o, t1, t2) ==
    /\ o \in DOMAIN heap
    /\ heap[o].cls = "RecurringTask"
    /\ heap[o].recurrence_count < MaxRecur
    /\ t1 >= now /\ t2 >= t1
    /\ heap' = [heap EXCEPT ![o] = complete_occurrence(@, t1, t2)]
    /\ now' = t2
    /\ was_completed' = Completions(heap')
    /\ ret' = Called("complete_occurrence", o, TRUE)
    /\ UNCHANGED <<tasks, task_history, file, uuid_next, filter_in, filter_out>>

AddTask(o, t) ==
    /\ o \in DOMAIN heap
    /\ Len(task_history) < MaxHist
    /\ t >= now
    /\ LET r == add_task(tasks, task_history, heap, o, t)
       IN  /\ tasks' = r.tasks
           /\ task_history' = r.history
    /\ now' = t
    /\ ret' = Called("add_task", o, TRUE)
    /\ UNCHANGED <<heap, file, uuid_next, filter_in, filter_out, was_completed>>

UpdateTask(task_id, kwargs, t1, t2) ==
    /\ (task_id \in Keys(tasks) => Len(task_history) < MaxHist)
    /\ Reads(task_id \in Keys(tasks), t1)
    /\ IF task_id \in Keys(tasks) THEN t2 >= t1 ELSE t2 = now
    /\ LET r == update_task(tasks, task_history, heap, task_id, kwargs, t1, t2)
       IN  /\ heap' = r.heap
           /\ task_history' = r.history
           /\ ret' = [Called("update_task", task_id, r.val) EXCEPT !.kwargs = kwargs]
    /\ now' = t2
    /\ was_completed' = Completions(heap')
    /\ UNCHANGED <<tasks, file, uuid_next, filter_in, filter_out>>

DeleteTask(task_id, t) ==
    /\ (task_id \in Keys(tasks) => Len(task_history) < MaxHist)
    /\ Reads(task_id \in Keys(tasks), t)
    /\ LET r == delete_task(tasks, task_history, heap, task_id, t)
       IN  /\ tasks' = r.tasks
           /\ task_history' = r.history
           /\ ret' = Called("delete_task", task_id, r.val)
    /\ now' = t
    /\ UNCHANGED <<heap, file, uuid_next, filter_in, filter_out, was_completed>>

SaveToFile ==
    /\ file' = save_to_file(tasks, task_history, heap)
    /\ ret' = Called("save_to_file", 0, TRUE)
    /\ UNCHANGED <<heap, tasks, task_history, now, uuid_next, filter_in, filter_out, was_completed>>

LoadFromFile ==
    /\ LET r == load_from_file(tasks, task_history, heap, file)
       IN  /\ heap' = r.heap
           /\ tasks' = r.tasks
           /\ task_history' = r.history
           /\ ret' = Called("load_from_file", 0, r.val)
           /\ was_completed' =
                IF r.val THEN {o \in DOMAIN r.heap : r.heap[o].status = COMPLETED}
                ELSE was_completed
    /\ UNCHANGED <<file, now, uuid_next, filter_in, filter_out>>

\* main, "3. Update task status": the task is looked up by its id and the
\* status chosen from list(TaskStatus); a recurring task asked to be COMPLETED
\* completes an occurrence, any other change goes through update_status, a
\* choice of the status the task has changes nothing
UpdateTaskStatus(task_id, new_status, t1, t2) ==
    /\ LET found == task_id \in Keys(tasks)
           o == DictGet(tasks, task_id)
       IN  IF found /\ heap[o].status # new_status
           THEN IF heap[o].cls = "RecurringTask" /\ new_status = COMPLETED
                THEN /\ heap[o].recurrence_count < MaxRecur
                     /\ t1 >= now /\ t2 >= t1
                     /\ heap' = [heap EXCEPT ![o] = complete_occurrence(@, t1, t2)]
                ELSE /\ t1 >= now /\ t2 = t1
                     /\ heap' = [heap EXCEPT ![o] = update_status(@, new_status, t1)]
           ELSE /\ t1 = now /\ t2 = now
                /\ heap' = heap
    /\ now' = t2
    /\ was_completed' = Completions(heap')
    /\ ret' = [Called("update_task_status", task_id, TRUE) EXCEPT !.status = new_status]
    /\ UNCHANGED <<tasks, task_history, file, uuid_next, filter_in, filter_out>>

\* the program is started again: a new TaskManager() with no task and no
\* history; the objects of the last run are gone, the file stays
NewManager ==
    /\ heap' = <<>>
    /\ tasks' = <<>>
    /\ task_history' = <<>>
    /\ was_completed' = {}
    /\ ret' = Called("TaskManager", 0, TRUE)
    /\ UNCHANGED <<file, now, uuid_next, filter_in, filter_out>>

\* the file as another program left it: record i now carries a type
\* discriminator that names none of the three classes
RetypeRecord(i) ==
    /\ file.exists
    /\ i \in DOMAIN file.tasks
    /\ KnownType(file.tasks[i])
    /\ file' = [file EXCEPT !.tasks[i].type = "NoteTask"]
    /\ ret' = Called("retype_record", i, TRUE)
    /\ UNCHANGED <<heap, tasks, task_history, now, uuid_next, filter_in, filter_out, was_completed>>

\* filter_by_multiple_tags with any() for all()
filter_by_any_tag(hp, tasklist, tags) ==
    LET keep(o) == \E i \in DOMAIN tags : Lower(tags[i]) \in hp[o].tags
    IN  SelectSeq(tasklist, keep)

\* TaskFilter.filter_by_multiple_tags(tasks, tags), tasks a list of references
filter_by_multiple_tags(hp, tasklist, tags) ==
    LET keep(o) == \A i \in DOMAIN tags : Lower(tags[i]) \in hp[o].tags
    IN  SelectSeq(tasklist, keep)

FilterByMultipleTags(tasklist, tags) ==
    /\ filter_in' = tags
    /\ filter_out' = filter_by_multiple_tags(heap, tasklist, tags)
    /\ ret' = Called("filter_by_multiple_tags", 0, TRUE)
    /\ UNCHANGED <<heap, tasks, task_history, file, now, uuid_next, was_completed>>

-----------------------------------------------------------------------------
(* The calls the environment makes on a manager and its tasks. *)

\* identifiers a caller may name: the ones uuid4 gives out and one it never gives out
TaskIds == 0..MaxIds

Times == 0..MaxNow

\* update_task's kwargs: none, a field no task has, and one existing field
Patches ==
    {<<>>} \cup {"bogus" :> 1}
        \cup {"status" :> COMPLETED}
        \cup {"id" :> i : i \in 1..MaxIds}

Constructions ==
    /\ uuid_next <= MaxIds
    /\ \E t \in Times :
        \/ NewTask("SimpleTask", "t", MEDIUM, None, "", t)
        \/ NewTask("ProjectTask", "t", HIGH, None, "proj", t)
        \/ NewTask("RecurringTask", "t", MEDIUM, 1, "weekly", t)

ManagerCalls ==
    \/ \E o \in DOMAIN heap : \E t \in Times : AddTask(o, t)
    \/ \E task_id \in TaskIds : \E kwargs \in Patches : \E t1, t2 \in Times :
            UpdateTask(task_id, kwargs, t1, t2)
    \/ \E task_id \in TaskIds : \E t \in Times : DeleteTask(task_id, t)

Completing ==
    \/ \E o \in DOMAIN heap : \E build \in Builds : \E t \in Times :
            UpdateStatus(o, COMPLETED, build, t)
    \/ \E o \in DOMAIN heap : \E t1, t2 \in Times : CompleteOccurrence(o, t1, t2)

\* a manager, its tasks and its file
Next == Constructions \/ ManagerCalls \/ SaveToFile \/ LoadFromFile

Spec == Init /\ [][Next]_vars

\* a manager, its tasks and a file that other programs write too
NextLoad == Next \/ \E i \in 1..MaxIds : RetypeRecord(i)

SpecLoad == Init /\ [][NextLoad]_vars

\* a manager and its tasks, completed by their own methods
NextOps == Constructions \/ ManagerCalls \/ Completing

SpecOps == Init /\ [][NextOps]_vars

-----------------------------------------------------------------------------
(* The calls the environment makes on one task. *)

TaskTimes == 0..MaxTaskNow

TaskDueDates == {None, 0, 1}

Frequencies == {"daily", "weekly", "monthly", "yearly", "hourly"}

\* what a caller hands to update_status: the members and two strs
StatusArgs == TaskStatus \cup {StrCompleted, StrBogus}

TaskConstructions ==
    /\ DOMAIN heap = {}
    /\ \E t \in TaskTimes : \E due_date \in TaskDueDates :
        \/ NewTask("SimpleTask", "s", LOW, due_date, "", t)
        \/ NewTask("ProjectTask", "p", URGENT, due_date, "proj", t)
        \/ \E frequency \in Frequencies :
                NewTask("RecurringTask", "r", MEDIUM, due_date, frequency, t)

NextTask ==
    \/ TaskConstructions
    \/ \E o \in DOMAIN heap : \E status \in StatusArgs : \E build \in Builds :
            \E t \in TaskTimes : UpdateStatus(o, status, build, t)
    \/ \E o \in DOMAIN heap : \E t \in TaskTimes : AddTag(o, "Work", t)
    \/ \E o \in DOMAIN heap : \E t \in TaskTimes : RemoveTag(o, "WORK", t)
    \/ \E o \in DOMAIN heap : \E t \in TaskTimes : IsOverdue(o, t)
    \/ \E o \in DOMAIN heap : \E t \in TaskTimes : AddDependency(o, o, t)
    \/ \E o \in DOMAIN heap : \E t \in TaskTimes : RemoveDependency(o, o, t)
    \/ \E o \in DOMAIN heap : \E t \in TaskTimes : SetEstimate(o, 5, t)
    \/ \E o \in DOMAIN heap : \E t1, t2 \in TaskTimes : CompleteOccurrence(o, t1, t2)

SpecTask == Init /\ [][NextTask]_vars

-----------------------------------------------------------------------------
(* The calls the environment makes on TaskFilter. *)

\* the tasks of the manager, list(task_manager.tasks.values())
AllTasks == [i \in 1..Cardinality(DOMAIN heap) |-> i]

Queries == {<<>>, <<"urgent">>, <<"Work">>, <<"URGENT", "work">>}

NextFilter ==
    \/ /\ uuid_next <= MaxFilterTasks
       /\ NewTask("SimpleTask", "s", MEDIUM, None, "", 0)
    \/ \E o \in DOMAIN heap : \E tag \in {"Urgent", "work"} : AddTag(o, tag, 0)
    \/ \E o \in DOMAIN heap : RemoveTag(o, "work", 0)
    \/ \E tags \in Queries : FilterByMultipleTags(AllTasks, tags)

SpecFilter == Init /\ [][NextFilter]_vars

-----------------------------------------------------------------------------
(* The patches the environment hands to update_task. *)

PatchTimes == 0..MaxPatchNow

\* kwargs of update_task: none, a name no task has, a data field, a method
\* name, updated_at itself, and a data field together with an unknown name
FieldPatches ==
    {<<>>, "bogus" :> 1, "title" :> "u", "is_overdue" :> 1, "updated_at" :> 5,
     ("title" :> "u") @@ ("bogus" :> 1)}

NextPatch ==
    \/ /\ uuid_next <= MaxIds
       /\ \E t \in PatchTimes :
            \/ NewTask("SimpleTask", "t", MEDIUM, None, "", t)
            \/ NewTask("ProjectTask", "t", HIGH, None, "proj", t)
    \/ \E o \in DOMAIN heap : \E t \in PatchTimes : AddTask(o, t)
    \/ \E task_id \in TaskIds : \E kwargs \in FieldPatches : \E t1, t2 \in PatchTimes :
            UpdateTask(task_id, kwargs, t1, t2)

SpecPatch == Init /\ [][NextPatch]_vars

-----------------------------------------------------------------------------
(* The calls the environment makes on one task and the manager it is in. *)

\* kwargs of update_task: none, and a later created_at
StampPatches == {<<>>, "created_at" :> 5}

NextOne ==
    \/ /\ DOMAIN heap = {}
       /\ \E t \in PatchTimes :
            \/ NewTask("ProjectTask", "p", HIGH, None, "proj", t)
            \/ NewTask("RecurringTask", "r", MEDIUM, 1, "weekly", t)
    \/ \E o \in DOMAIN heap : \E build \in Builds : \E t \in PatchTimes :
            UpdateStatus(o, IN_PROGRESS, build, t)
    \/ \E o \in DOMAIN heap : \E t \in PatchTimes : AddTag(o, "Work", t)
    \/ \E o \in DOMAIN heap : \E t \in PatchTimes : RemoveTag(o, "WORK", t)
    \/ \E o \in DOMAIN heap : \E t \in PatchTimes : AddDependency(o, o, t)
    \/ \E o \in DOMAIN heap : \E t \in PatchTimes : RemoveDependency(o, o, t)
    \/ \E o \in DOMAIN heap : \E t \in PatchTimes : SetEstimate(o, 5, t)
    \/ \E o \in DOMAIN heap : \E t1, t2 \in PatchTimes : CompleteOccurrence(o, t1, t2)
    \/ \E o \in DOMAIN heap : \E t \in PatchTimes : AddTask(o, t)
    \/ \E task_id \in 0..1 : \E kwargs \in StampPatches : \E t1, t2 \in PatchTimes :
            UpdateTask(task_id, kwargs, t1, t2)
    \/ \E task_id \in 0..1 : \E t \in PatchTimes : DeleteTask(task_id, t)

SpecOne == Init /\ [][NextOne]_vars

\* one task made in the first run of the program, then several runs with the
\* file between them
NextRun ==
    \/ /\ DOMAIN heap = {}
       /\ uuid_next = 1
       /\ \E t \in Times :
            \/ NewTask("ProjectTask", "p", HIGH, None, "proj", t)
            \/ NewTask("RecurringTask", "r", MEDIUM, 1, "weekly", t)
    \/ \E o \in DOMAIN heap : \E build \in Builds : \E t \in Times :
            UpdateStatus(o, IN_PROGRESS, build, t)
    \/ \E o \in DOMAIN heap : \E t \in Times : AddTag(o, "Work", t)
    \/ \E o \in DOMAIN heap : \E t \in Times : RemoveTag(o, "WORK", t)
    \/ \E o \in DOMAIN heap : \E t \in Times : AddDependency(o, o, t)
    \/ \E o \in DOMAIN heap : \E t \in Times : RemoveDependency(o, o, t)
    \/ \E o \in DOMAIN heap : \E t \in Times : SetEstimate(o, 5, t)
    \/ \E o \in DOMAIN heap : \E t1, t2 \in Times : CompleteOccurrence(o, t1, t2)
    \/ \E o \in DOMAIN heap : \E t \in Times : AddTask(o, t)
    \/ \E task_id \in 0..1 : \E t1, t2 \in Times : UpdateTask(task_id, <<>>, t1, t2)
    \/ \E task_id \in 0..1 : \E t \in Times : DeleteTask(task_id, t)
    \/ SaveToFile
    \/ LoadFromFile
    \/ NewManager

SpecRun == Init /\ [][NextRun]_vars

-----------------------------------------------------------------------------
(* The status updates a user of the command-line program asks for. *)

NextCli ==
    \/ /\ uuid_next <= MaxIds
       /\ \E t \in TaskTimes :
            \/ NewTask("SimpleTask", "s", MEDIUM, None, "", t)
            \/ NewTask("RecurringTask", "r", MEDIUM, 1, "daily", t)
    \/ \E o \in DOMAIN heap : \E t \in TaskTimes :
            /\ heap[o].id \notin Keys(tasks)
            /\ AddTask(o, t)
    \/ \E task_id \in TaskIds : \E new_status \in TaskStatus : \E t1, t2 \in TaskTimes :
            UpdateTaskStatus(task_id, new_status, t1, t2)

SpecCli == Init /\ [][NextCli]_vars

-----------------------------------------------------------------------------
(* Properties.  A step whose ret'.op is f is a call of f: every action      *)
(* writes its own name there.                                               *)

IsPrefix(s, t) == Len(s) <= Len(t) /\ SubSeq(t, 1, Len(s)) = s

Last(s) == s[Len(s)]

\* the task stored under key k of dict d
Stored(hp, d, k) == hp[DictGet(d, k)]

\* C1: delete_task of an identifier that is no key returns False and leaves the
\* collection and the history as they were; of a key, it returns True, removes
\* exactly that entry and appends exactly one record, a "delete" of that identifier.
C1_DeleteContract ==
    [][ret'.op = "delete_task" =>
        IF ret'.arg \notin Keys(tasks)
        THEN /\ ret'.val = FALSE
             /\ tasks' = tasks
             /\ task_history' = task_history
        ELSE /\ ret'.val = TRUE
             /\ Keys(tasks') = Keys(tasks) \ {ret'.arg}
             /\ \A k \in Keys(tasks') : DictGet(tasks', k) = DictGet(tasks, k)
             /\ heap' = heap
             /\ Len(task_history') = Len(task_history) + 1
             /\ IsPrefix(task_history, task_history')
             /\ Last(task_history').action = "delete"
             /\ Last(task_history').task_id = ret'.arg]_vars

\* C2: a task's completion_date is set if and only if its status has at some
\* point changed into COMPLETED.
C2_CompletionDateIffCompleted ==
    \A o \in DOMAIN heap : (heap[o].completion_date # None) <=> (o \in was_completed)

\* the fields of a task the round trip is to keep
Listed(task) ==
    [k \in DOMAIN task \ {"description", "created_at", "updated_at", "completion_date"} |-> task[k]]

Collection(hp, d) == {Listed(hp[d[i].ref]) : i \in DOMAIN d}

\* C3: save_to_file followed by load_from_file gives a collection holding, for
\* every task saved, a task of the same class with the same id, title, status,
\* priority, due date, tags and class-specific fields, and no other task.
C3_RoundTrip ==
    [][(ret.op = "save_to_file" /\ ret'.op = "load_from_file") =>
        /\ ret'.val = TRUE
        /\ Collection(heap', tasks') = Collection(heap, tasks)]_vars

\* the days the claim says a frequency moves the due date by
DaysOf(frequency) ==
    CASE frequency = "daily" -> 1
      [] frequency = "weekly" -> 7
      [] frequency = "monthly" -> 30
      [] frequency = "yearly" -> 365
      [] OTHER -> 0

\* C4: complete_occurrence, from any status, adds one to recurrence_count, sets
\* the status to NOT_STARTED and last_completed to the time of the call, and
\* moves a due date that is set by 1, 7, 30 or 365 days for daily, weekly,
\* monthly, yearly; any other frequency, or no due date, leaves due_date alone.
C4_CompleteOccurrence ==
    [][ret'.op = "complete_occurrence" =>
        LET before == heap[ret'.arg]
            after == heap'[ret'.arg]
        IN  /\ after.recurrence_count = before.recurrence_count + 1
            /\ after.status = NOT_STARTED
            /\ after.last_completed # None
            /\ now <= after.last_completed /\ after.last_completed <= now'
            /\ after.due_date =
                 IF before.due_date = None THEN None
                 ELSE before.due_date + DaysOf(before.frequency)]_vars

C4_Witness ==
    /\ ret.op = "complete_occurrence"
    /\ heap[ret.arg].frequency = "weekly"
    /\ heap[ret.arg].due_date = 8
    /\ heap[ret.arg].recurrence_count = 1
    /\ heap[ret.arg].completion_date # None

C6_IsOverdue ==
    [][ret'.op = "is_overdue" =>
        LET task == heap[ret'.arg]
        IN  /\ heap' = heap
            /\ ret'.val = (/\ task.due_date # None
                           /\ task.status # COMPLETED
                           /\ now' > task.due_date)]_vars

\* a COMPLETED task whose due date has passed is not overdue
C6_Witness ==
    /\ ret.op = "is_overdue" /\ ret.val = FALSE
    /\ heap[ret.arg].status = COMPLETED
    /\ heap[ret.arg].due_date # None
    /\ now > heap[ret.arg].due_date

\* C7: filter_by_multiple_tags returns exactly the tasks whose tags hold every
\* lower-cased query tag, each once and in the order given, and changes no task.
C7_FilterByMultipleTags ==
    [][ret'.op = "filter_by_multiple_tags" =>
        LET query == {Lower(filter_in'[i]) : i \in DOMAIN filter_in'}
            kept == {o \in DOMAIN heap : query \subseteq heap[o].tags}
        IN  /\ heap' = heap
            /\ ListToSet(filter_out') = kept
            /\ Len(filter_out') = Cardinality(kept)
            /\ \A i, j \in DOMAIN filter_out' : i < j => filter_out'[i] < filter_out'[j]]_vars

\* tasks tagged {urgent, work}, {urgent}, {work}: ["URGENT", "work"] gives the first only
C7_Witness ==
    /\ ret.op = "filter_by_multiple_tags"
    /\ filter_in = <<"URGENT", "work">>
    /\ DOMAIN heap = 1..3
    /\ heap[1].tags = {"urgent", "work"}
    /\ heap[2].tags = {"urgent"}
    /\ heap[3].tags = {"work"}
    /\ filter_out = <<1>>

\* C8 as stated: the history only grows, whatever the manager does.
C8_AppendOnly == [][IsPrefix(task_history, task_history')]_vars

\* C8, amended: the history only grows, except in a load_from_file that finds
\* the file, which puts the stored history in its place.
C8_AppendOnlyButLoad ==
    [][IF ret'.op = "load_from_file" /\ ret'.val
       THEN task_history' = file.history
       ELSE IsPrefix(task_history, task_history')]_vars

C8_Witness ==
    /\ ret.op = "load_from_file" /\ ret.val
    /\ Len(task_history) = 1
    /\ Len(tasks) = 1

\* C9: no call changes the id of a task, and every key of the collection is the
\* id of the task stored under it.
C9_IdImmutable ==
    [][/\ ret'.op # "load_from_file" =>
            \A o \in DOMAIN heap : heap'[o].id = heap[o].id
       /\ \A k \in Keys(tasks') : Stored(heap', tasks', k).id = k]_vars

\* C10: update_task of an identifier that is no key returns False and leaves
\* the tasks, the collection and the history as they were.
C10_UpdateUnknown ==
    [][(ret'.op = "update_task" /\ ret'.arg \notin Keys(tasks)) =>
        /\ ret'.val = FALSE
        /\ heap' = heap
        /\ tasks' = tasks
        /\ task_history' = task_history]_vars

C10_Witness ==
    /\ ret.op = "update_task" /\ ret.val = FALSE
    /\ DOMAIN ret.kwargs = {"status"}
    /\ Len(tasks) = 1
    /\ ret.arg \notin Keys(tasks)

\* the data fields of a task
Fields(task) == DOMAIN task \ {"cls"}

\* C11: update_task of a key returns True, gives every patched name that is a
\* field of the task the patch's value, creates no field the task did not
\* have, sets updated_at to the time of the call, appends exactly one "update"
\* record (whatever the patch holds), and changes no other task.
C11_UpdateKnown ==
    [][(ret'.op = "update_task" /\ ret'.arg \in Keys(tasks)) =>
        LET o == DictGet(tasks, ret'.arg)
            kwargs == ret'.kwargs
        IN  /\ ret'.val = TRUE
            /\ \A k \in DOMAIN kwargs \cap Fields(heap[o]) : heap'[o][k] = kwargs[k]
            /\ Fields(heap'[o]) = Fields(heap[o])
            /\ now <= heap'[o].updated_at /\ heap'[o].updated_at <= now'
            /\ Len(task_history') = Len(task_history) + 1
            /\ IsPrefix(task_history, task_history')
            /\ Last(task_history').action = "update"
            /\ tasks' = tasks
            /\ \A p \in DOMAIN heap \ {o} : heap'[p] = heap[p]]_vars

\* C12: update_status of a value that is no member of TaskStatus raises the
\* invalid-status error (ValueError) and leaves the task as it was; of a member
\* it sets the status to it and updated_at to the time of the call.
C12_UpdateStatus ==
    [][ret'.op = "update_status" =>
        LET before == heap[ret'.arg]
            after == heap'[ret'.arg]
        IN  IF ret'.status \notin TaskStatus
            THEN /\ ret'.error = "ValueError"
                 /\ after.status = before.status
                 /\ after.updated_at = before.updated_at
                 /\ after.completion_date = before.completion_date
            ELSE /\ ret'.error = ""
                 /\ after.status = ret'.status
                 /\ now <= after.updated_at /\ after.updated_at = now']_vars

\* C13: load_from_file of a path that does not exist raises nothing, returns
\* False and leaves the collection, its tasks and the history as they were.
C13_LoadMissing ==
    [][(ret'.op = "load_from_file" /\ ~file.exists) =>
        /\ ret'.val = FALSE
        /\ ret'.error = ""
        /\ tasks' = tasks
        /\ heap' = heap
        /\ task_history' = task_history]_vars

C13_Witness ==
    /\ ret.op = "load_from_file" /\ ret.val = FALSE
    /\ ~file.exists
    /\ Len(tasks) = 2
    /\ Len(task_history) = 3

\* the stored records load_from_file builds a task from
KnownRecords(f) == {i \in DOMAIN f.tasks : KnownType(f.tasks[i])}

\* C14: load_from_file of a file that exists returns True; afterwards the
\* collection holds exactly one task for every stored record of a known type
\* (of the record's class, under the record's id) and no other task, whatever
\* it held before, and the history is the stored history.
C14_LoadReplaces ==
    [][(ret'.op = "load_from_file" /\ file.exists) =>
        /\ ret'.val = TRUE
        /\ Len(tasks') = Cardinality(KnownRecords(file))
        /\ \A i \in KnownRecords(file) :
                \E j \in DOMAIN tasks' :
                    /\ tasks'[j].key = file.tasks[i].id
                    /\ heap'[tasks'[j].ref].id = file.tasks[i].id
                    /\ heap'[tasks'[j].ref].cls = file.tasks[i].type
        /\ \A j \in DOMAIN tasks' :
                \E i \in KnownRecords(file) : tasks'[j].key = file.tasks[i].id
        /\ DOMAIN heap' = {tasks'[j].ref : j \in DOMAIN tasks'}
        /\ task_history' = file.history]_vars

\* C15 as stated: every call that changes a task leaves its updated_at at the
\* time of the call; updated_at is never before created_at and never decreases.
C15_UpdatedAtAdvances ==
    [][\A o \in DOMAIN heap' :
        /\ heap'[o].updated_at >= heap'[o].created_at
        /\ o \in DOMAIN heap =>
              /\ heap'[o].updated_at >= heap[o].updated_at
              /\ heap'[o] # heap[o] =>
                    (now <= heap'[o].updated_at /\ heap'[o].updated_at <= now')]_vars

\* C15, amended: every call that changes a task leaves its updated_at at the
\* time of the call, and updated_at never decreases; it is not before
\* created_at when the task is made, and stays so across every call that
\* leaves created_at alone (update_task can be handed a later created_at).
C15_UpdatedAtAdvancesUnlessRestamped ==
    [][\A o \in DOMAIN heap' :
        IF o \notin DOMAIN heap
        THEN heap'[o].updated_at >= heap'[o].created_at
        ELSE /\ heap'[o].updated_at >= heap[o].updated_at
             /\ heap'[o] # heap[o] =>
                   (now <= heap'[o].updated_at /\ heap'[o].updated_at <= now')
             /\ (/\ heap'[o].created_at = heap[o].created_at
                 /\ heap[o].updated_at >= heap[o].created_at) =>
                   heap'[o].updated_at >= heap'[o].created_at]_vars

\* a registered task made at 0, last changed at 1 by one of its own methods
C15_Witness ==
    /\ ret.op = "set_estimate"
    /\ Len(tasks) = 1
    /\ heap[ret.arg].created_at = 0
    /\ heap[ret.arg].updated_at = 1
    /\ heap[ret.arg].tags # {}

\* the methods of a task that change it
DirectMutators ==
    {"update_status", "add_tag", "remove_tag", "add_dependency", "remove_dependency",
     "set_estimate", "complete_occurrence"}

\* the call of this step is an add_task, an update_task of a key or a
\* delete_task of a key
Recording ==
    \/ ret'.op = "add_task"
    \/ ret'.op \in {"update_task", "delete_task"} /\ ret'.val

\* C16 as stated: a task's own mutators leave the manager's history and its
\* keys as they were; add_task, update_task and a successful delete_task
\* append exactly one record, and nothing else makes the history longer.
C16_HistoryGrowsByManager ==
    [][/\ ret'.op \in DirectMutators =>
            (task_history' = task_history /\ Keys(tasks') = Keys(tasks))
       /\ Recording =>
            (Len(task_history') = Len(task_history) + 1 /\ IsPrefix(task_history, task_history'))
       /\ Len(task_history') > Len(task_history) => Recording]_vars

\* C16, amended: as above, except that a load_from_file that finds the file
\* puts the stored history in place of the manager's, which can be longer.
C16_HistoryGrowsByManagerOrLoad ==
    [][/\ ret'.op \in DirectMutators =>
            (task_history' = task_history /\ Keys(tasks') = Keys(tasks))
       /\ Recording =>
            (Len(task_history') = Len(task_history) + 1 /\ IsPrefix(task_history, task_history'))
       /\ Len(task_history') > Len(task_history) =>
            \/ Recording
            \/ ret'.op = "load_from_file" /\ ret'.val /\ task_history' = file.history]_vars

\* a registered recurring task completed by its own method, the history
\* still the two records the manager wrote
C16_Witness ==
    /\ ret.op = "complete_occurrence"
    /\ Len(tasks) = 1
    /\ tasks[1].ref = ret.arg
    /\ Len(task_history) = 2
    /\ heap[ret.arg].recurrence_count = 1

\* C17: with every status change asked for through the program's status
\* update, no recurring task ever has the status COMPLETED.
C17_RecurringNeverCompleted ==
    \A o \in DOMAIN heap : heap[o].cls = "RecurringTask" => heap[o].status # COMPLETED

\* a recurring task that was in progress, asked to be COMPLETED: one
\* occurrence counted, the status back at NOT_STARTED
C17_Witness ==
    /\ ret.op = "update_task_status" /\ ret.status = COMPLETED
    /\ ret.arg \in Keys(tasks)
    /\ Stored(heap, tasks, ret.arg).cls = "RecurringTask"
    /\ Stored(heap, tasks, ret.arg).recurrence_count = 1
    /\ Stored(heap, tasks, ret.arg).status = NOT_STARTED
    /\ Stored(heap, tasks, ret.arg).updated_at > Stored(heap, tasks, ret.arg).created_at
    /\ \E o \in DOMAIN heap : heap[o].cls = "SimpleTask" /\ heap[o].status = COMPLETED

====
